---- MODULE Spec2Model ----
(***************************************************************************)
(* git_stats: one pass over a repository's history that classifies every   *)
(* commit against a target e-mail (src/src/main.rs).                        *)
(*                                                                         *)
(* Strings are sequences of one-character strings, Option<T> is a sequence *)
(* of length 0 (None) or 1 (Some).  Times are whole days since the epoch,  *)
(* on a scale where DateTime represents the days of ChronoRange only.      *)
(***************************************************************************)
EXTENDS Integers, Sequences, FiniteSets, TLC

VARIABLES
    args,              \* Args: path, email, since, partial
    history,           \* the commit times the revwalk yields, in traversal order
    pc,                \* position of main
    error,             \* the fatal error main returned, "" while there is none
    since_date,        \* Option<DateTime<Utc>>
    idx,               \* 1-based position of the revwalk iterator in history
    commit_time,       \* Option: commit_time of the commit read last
    email,             \* author.email() of the commit processed last
    message,           \* commit.message() of the commit processed last
    is_match,
    trailers,          \* Option<TrailerState> of the commit processed last
    total_scanned,
    commits_authored,
    commits_touched,
    commits_ignored,
    signed_off_count,
    reviewed_count,
    acked_count,
    tested_count,
    reported_count,
    summary,           \* Option: the counters as the summary printed them
    chart_files        \* names of the PNG files saved

vars == <<args, history, pc, error, since_date, idx, commit_time,
          email, message, is_match, trailers, total_scanned, commits_authored,
          commits_touched, commits_ignored, signed_off_count, reviewed_count,
          acked_count, tested_count, reported_count, summary, chart_files>>

counters == <<total_scanned, commits_authored, commits_touched, commits_ignored,
              signed_off_count, reviewed_count, acked_count, tested_count,
              reported_count>>

-----------------------------------------------------------------------------
(* Bounds *)

MaxCommits == 2

MaxLines == 2

-----------------------------------------------------------------------------
(* Option *)

None == <<>>

Some(x) == <<x>>

IsSome(o) == Len(o) = 1

Unwrap(o) == o[1]

unwrap_or(o, d) == IF IsSome(o) THEN o[1] ELSE d

-----------------------------------------------------------------------------
(* str *)

UpperChars ==
    <<"A","B","C","D","E","F","G","H","I","J","K","L","M",
      "N","O","P","Q","R","S","T","U","V","W","X","Y","Z">>

LowerChars ==
    <<"a","b","c","d","e","f","g","h","i","j","k","l","m",
      "n","o","p","q","r","s","t","u","v","w","x","y","z">>

WhiteSpace == {" ", "\t", "\r", "\n"}

UpperToLower ==
    [c \in {UpperChars[i] : i \in 1..26} |->
        LowerChars[CHOOSE i \in 1..26 : UpperChars[i] = c]]

char_to_lowercase(c) ==
    IF c \in DOMAIN UpperToLower THEN UpperToLower[c] ELSE c

to_lowercase(s) == [i \in 1..Len(s) |-> char_to_lowercase(s[i])]

contains(hay, needle) ==
    \E i \in 0..(Len(hay) - Len(needle)) :
        SubSeq(hay, i + 1, i + Len(needle)) = needle

starts_with(s, prefix) ==
    /\ Len(s) >= Len(prefix)
    /\ SubSeq(s, 1, Len(prefix)) = prefix

trim(s) ==
    LET keep == {i \in 1..Len(s) : s[i] \notin WhiteSpace}
    IN  IF keep = {} THEN <<>>
        ELSE SubSeq(s, CHOOSE i \in keep : \A j \in keep : i <= j,
                       CHOOSE i \in keep : \A j \in keep : i >= j)

\* one line without its terminator: a final "\r" belongs to a "\r\n" terminator
StripCr(l) ==
    IF Len(l) > 0 /\ l[Len(l)] = "\r" THEN SubSeq(l, 1, Len(l) - 1) ELSE l

RECURSIVE lines(_)
lines(s) ==
    IF s = <<>> THEN <<>>
    ELSE LET nl == {i \in 1..Len(s) : s[i] = "\n"}
         IN  IF nl = {} THEN <<s>>
             ELSE LET k == CHOOSE i \in nl : \A j \in nl : i <= j
                  IN  <<StripCr(SubSeq(s, 1, k - 1))>> \o lines(SubSeq(s, k + 1, Len(s)))

-----------------------------------------------------------------------------
(* TrailerState and analyze_trailers *)

SIGNED_OFF_BY == <<"s","i","g","n","e","d","-","o","f","f","-","b","y",":">>

REVIEWED_BY == <<"r","e","v","i","e","w","e","d","-","b","y",":">>

ACKED_BY == <<"a","c","k","e","d","-","b","y",":">>

TESTED_BY == <<"t","e","s","t","e","d","-","b","y",":">>

REPORTED_BY == <<"r","e","p","o","r","t","e","d","-","b","y",":">>

Kinds == {"signed_off", "reviewed", "acked", "tested", "reported"}

TrailerStateDefault ==
    [signed_off |-> FALSE, reviewed |-> FALSE, acked |-> FALSE,
     tested |-> FALSE, reported |-> FALSE]

any_active(state) ==
    state.signed_off \/ state.reviewed \/ state.acked \/ state.tested \/ state.reported

\* LowerLine with the trim left out: the prefix is tested on the line as written
LowerLineUntrimmed(line) == to_lowercase(line)

\* the line as the loop body tests it
LowerLine(line) == to_lowercase(trim(line))

\* the body of the loop over the lines: one line's effect on the state
ScanLine(state, line, target) ==
    LET lower == LowerLine(line)
    IN  IF contains(lower, target)
        THEN IF starts_with(lower, SIGNED_OFF_BY) THEN [state EXCEPT !.signed_off = TRUE]
             ELSE IF starts_with(lower, REVIEWED_BY) THEN [state EXCEPT !.reviewed = TRUE]
             ELSE IF starts_with(lower, ACKED_BY) THEN [state EXCEPT !.acked = TRUE]
             ELSE IF starts_with(lower, TESTED_BY) THEN [state EXCEPT !.tested = TRUE]
             ELSE IF starts_with(lower, REPORTED_BY) THEN [state EXCEPT !.reported = TRUE]
             ELSE state
        ELSE state

RECURSIVE ScanLines(_, _, _)
ScanLines(state, ls, target) ==
    IF ls = <<>> THEN state
    ELSE ScanLines(ScanLine(state, Head(ls), target), Tail(ls), target)

analyze_trailers(msg, target) ==
    LET state == ScanLines(TrailerStateDefault, lines(msg), target)
    IN  IF any_active(state) THEN Some(state) ELSE None

-----------------------------------------------------------------------------
(* Inputs: e-mail addresses, commit messages, dates, paths *)

J_LOWER == <<"j","@","x">>

J_UPPER == <<"J","@","x">>

AJ_LOWER == <<"a","j","@","x">>

K_LOWER == <<"k","@","y">>

NL == <<"\n">>

SP == <<" ">>

FIX == <<"f","i","x">>

\* "Signed-off-by:", "Reviewed-by:", ... as they are usually written
Cap(prefix, c) == <<c>> \o Tail(prefix)

SignedOffBy == Cap(SIGNED_OFF_BY, "S")

ReviewedBy == Cap(REVIEWED_BY, "R")

AckedBy == Cap(ACKED_BY, "A")

TestedBy == Cap(TESTED_BY, "T")

ReportedBy == Cap(REPORTED_BY, "R")

\* --email
Emails == {J_LOWER, J_UPPER, <<>>}

\* author.email(): None when the stored e-mail is not valid UTF-8
AuthorEmails == {None, Some(J_LOWER), Some(J_UPPER), Some(AJ_LOWER)}

\* commit.message(): None when the stored message is not valid UTF-8
Messages ==
    { None,
      Some(FIX),
      Some(FIX \o NL \o NL \o SignedOffBy \o SP \o K_LOWER),
      Some(FIX \o NL \o NL \o SignedOffBy \o SP \o J_UPPER \o NL),
      Some(ReviewedBy \o SP \o J_LOWER \o NL \o ReviewedBy \o SP \o J_LOWER),
      Some(AckedBy \o SP \o J_LOWER \o NL \o SP \o TestedBy \o SP \o J_LOWER
             \o NL \o ReportedBy \o SP \o J_LOWER) }

\* the lines the messages of SpecTrailers are made of
TrailerLines ==
    { FIX,
      <<>>,
      J_LOWER,
      SIGNED_OFF_BY,
      SignedOffBy \o SP \o J_UPPER,
      SP \o SP \o REVIEWED_BY \o SP \o J_LOWER \o SP,
      <<"A","C","K","E","D","-","B","Y",":">> \o J_LOWER,
      TestedBy \o SP \o K_LOWER,
      <<"\t">> \o TestedBy \o SP \o AJ_LOWER,
      ReportedBy \o SP \o J_LOWER \o <<"\r">>,
      <<"x">> \o SP \o SignedOffBy \o SP \o J_LOWER,
      ReviewedBy \o SP \o SignedOffBy \o SP \o J_LOWER }

RECURSIVE Join(_)
Join(ls) ==
    IF Len(ls) = 0 THEN <<>>
    ELSE IF Len(ls) = 1 THEN ls[1]
    ELSE ls[1] \o NL \o Join(Tail(ls))

TrailerMessages ==
    { Join(ls) : ls \in UNION { [1..n -> TrailerLines] : n \in 0..MaxLines } }

\* --since
Sinces == {None, Some("1970-01-03"), Some("yesterday")}

\* NaiveDate::parse_from_str(date_str, "%Y-%m-%d"): the day number, None on a bad format
parse_from_str(date_str) ==
    IF date_str = "1970-01-03" THEN Some(2) ELSE None

\* --path, as its "/"-separated pieces
Paths == { <<".">>, <<"work", "repo", ".">> }

\* Path::components: a "." that is not the first piece is dropped
components(path) ==
    LET keep(i) == i = 1 \/ path[i] # "."
        RECURSIVE Pick(_)
        Pick(i) == IF i > Len(path) THEN <<>>
                   ELSE IF keep(i) THEN <<path[i]>> \o Pick(i + 1)
                   ELSE Pick(i + 1)
    IN  Pick(1)

\* Path::file_name: the last component when it is a normal one
file_name(path) ==
    LET cs == components(path)
    IN  IF cs = <<>> \/ cs[Len(cs)] \in {".", ".."}
        THEN None
        ELSE Some(cs[Len(cs)])

\* the seconds DateTime can represent, and the commit times the history holds
ChronoRange == 0..3

Epoch == 0

Seconds == 1..4

\* DateTime::from_timestamp(seconds, 0).unwrap_or_default()
from_timestamp_or_default(seconds) ==
    IF seconds \in ChronoRange THEN seconds ELSE Epoch

Histories == UNION { [1..n -> Seconds] : n \in 0..MaxCommits }

ArgsSet == [path : Paths, email : Emails, since : Sinces, partial : BOOLEAN]

-----------------------------------------------------------------------------
(* main: the per-commit decisions *)

\* let search_email = args.email.to_lowercase();
search_email == to_lowercase(args.email)

\* let is_match = if args.partial { contains } else { == }, on author.email().unwrap_or("")
IsMatch(author, a) ==
    LET author_email == unwrap_or(author, <<>>)
    IN  IF a.partial THEN contains(author_email, a.email)
        ELSE author_email = a.email

\* if let Some(msg) = commit.message() { analyze_trailers(msg, &search_email) }
Trailers(msg, target) ==
    IF IsSome(msg) THEN analyze_trailers(Unwrap(msg), target) ELSE None

\* Trailers, evaluated once for every message and target of the walk
TrailersMemo ==
    [target \in {to_lowercase(e) : e \in Emails} |->
        [msg \in Messages |-> Trailers(msg, target)]]

AuthoredInc(m) == IF m THEN 1 ELSE 0

\* SignedOffInc with the author test left out
SignedOffIncAnyAuthor(t, m) ==
    IF IsSome(t) /\ Unwrap(t).signed_off THEN 1 ELSE 0

SignedOffInc(t, m) ==
    IF IsSome(t) /\ Unwrap(t).signed_off /\ ~m THEN 1 ELSE 0

ReviewedInc(t) == IF IsSome(t) /\ Unwrap(t).reviewed THEN 1 ELSE 0

AckedInc(t) == IF IsSome(t) /\ Unwrap(t).acked THEN 1 ELSE 0

TestedInc(t) == IF IsSome(t) /\ Unwrap(t).tested THEN 1 ELSE 0

ReportedInc(t) == IF IsSome(t) /\ Unwrap(t).reported THEN 1 ELSE 0

\* TouchedInc with the trailer test left out: every commit of another author
\* that has a message is touched
TouchedIncAnyMessage(msg, t, m) ==
    IF IsSome(msg) /\ ~m THEN 1 ELSE 0

TouchedInc(msg, t, m) ==
    IF IsSome(msg) /\ IsSome(t) /\ ~m THEN 1 ELSE 0

IgnoredInc(msg, t, m) ==
    IF IsSome(msg)
    THEN IF ~IsSome(t) /\ ~m THEN 1 ELSE 0
    ELSE 1

\* if commit_time < since { break; }
BeforeCutoff(seconds) ==
    /\ IsSome(since_date)
    /\ from_timestamp_or_default(seconds) < Unwrap(since_date)

\* the condition debug_assert_eq! tests
AssertEq(total, authored, touched, ignored) == total = authored + touched + ignored

\* debug_assert_eq!: where the loop goes on a pass that began with the counters in
\* balance (before) and ends with them in balance or not (after).  A debug build
\* panics on the first imbalance, a release build never tests, so a run that is
\* past an imbalance is a release build.
DebugAssertEq(before, after) ==
    IF after \/ ~before THEN {"walk"} ELSE {"walk", "panicked"}

\* ChartWanted with >= for >: the chart is drawn for an empty walk as well
ChartWantedAlways == total_scanned >= 0

\* if total_scanned > 0
ChartWanted == total_scanned > 0

-----------------------------------------------------------------------------
(* main *)

NoCommit ==
    /\ commit_time = None
    /\ email = None
    /\ message = None
    /\ is_match = FALSE
    /\ trailers = None

ZeroCounters ==
    /\ total_scanned = 0
    /\ commits_authored = 0
    /\ commits_touched = 0
    /\ commits_ignored = 0
    /\ signed_off_count = 0
    /\ reviewed_count = 0
    /\ acked_count = 0
    /\ tested_count = 0
    /\ reported_count = 0

Init ==
    /\ args \in ArgsSet
    /\ history \in Histories
    /\ pc = "parse_date"
    /\ error = ""
    /\ since_date = None
    /\ idx = 1
    /\ NoCommit
    /\ ZeroCounters
    /\ summary = None
    /\ chart_files = <<>>

\* the locals of the loop body go out of scope
DropCommit ==
    /\ commit_time' = None
    /\ email' = None
    /\ message' = None
    /\ is_match' = FALSE
    /\ trailers' = None

Fail(msg) ==
    /\ pc' = "failed"
    /\ error' = msg

\* 1. Parse Date
ParseDate ==
    /\ pc = "parse_date"
    /\ IF IsSome(args.since)
       THEN LET naive_date == parse_from_str(Unwrap(args.since))
            IN  IF IsSome(naive_date)
                THEN /\ since_date' = naive_date
                     /\ pc' = "open_repo"
                     /\ error' = error
                ELSE /\ Fail("Invalid date format. Please use YYYY-MM-DD")
                     /\ since_date' = since_date
       ELSE /\ since_date' = None
            /\ pc' = "open_repo"
            /\ error' = error
    /\ UNCHANGED <<args, history, idx, commit_time, email, message,
                   is_match, trailers, counters, summary, chart_files>>

\* 2. Open Repo: the path holds a repository and HEAD resolves to a commit
OpenRepo ==
    /\ pc = "open_repo"
    /\ history # <<>>
    /\ pc' = "walk"
    /\ UNCHANGED <<args, history, error, since_date, idx, commit_time,
                   email, message, is_match, trailers, counters, summary, chart_files>>

\* Repository::open fails: the path holds no repository
OpenRepoError ==
    /\ pc = "open_repo"
    /\ Fail("Failed to open git repository")
    /\ UNCHANGED <<args, history, since_date, idx, commit_time,
                   email, message, is_match, trailers, counters, summary, chart_files>>

\* revwalk.push_head fails: HEAD is unborn, the history holds no commit
PushHeadError ==
    /\ pc = "open_repo"
    /\ history = <<>>
    /\ Fail("Failed to find HEAD")
    /\ UNCHANGED <<args, history, since_date, idx, commit_time,
                   email, message, is_match, trailers, counters, summary, chart_files>>

\* for oid in revwalk: the iterator is exhausted; the locals of the loop body are dropped
WalkEnd ==
    /\ pc = "walk"
    /\ idx > Len(history)
    /\ pc' = "summary"
    /\ DropCommit
    /\ UNCHANGED <<args, history, error, since_date, idx,
                   counters, summary, chart_files>>

\* the object id or the commit cannot be read
WalkError ==
    /\ pc = "walk"
    /\ idx <= Len(history)
    /\ Fail("Failed to find commit")
    /\ UNCHANGED <<args, history, since_date, idx, commit_time,
                   email, message, is_match, trailers, counters, summary, chart_files>>

\* the commit is older than the cutoff: break; the locals of the loop body are dropped
WalkBreak ==
    /\ pc = "walk"
    /\ idx <= Len(history)
    /\ BeforeCutoff(history[idx])
    /\ pc' = "summary"
    /\ DropCommit
    /\ UNCHANGED <<args, history, error, since_date, idx,
                   counters, summary, chart_files>>

\* one pass of the loop body over a commit that is not cut off
WalkCommit ==
    /\ pc = "walk"
    /\ idx <= Len(history)
    /\ ~BeforeCutoff(history[idx])
    /\ \E author \in AuthorEmails, msg \in Messages :
         /\ email' = author
         /\ message' = msg
    /\ commit_time' = Some(from_timestamp_or_default(history[idx]))
    /\ total_scanned' = total_scanned + 1
    /\ is_match' = IsMatch(email', args)
    /\ commits_authored' = commits_authored + AuthoredInc(is_match')
    /\ trailers' = TrailersMemo[search_email][message']
    /\ signed_off_count' = signed_off_count + SignedOffInc(trailers', is_match')
    /\ reviewed_count' = reviewed_count + ReviewedInc(trailers')
    /\ acked_count' = acked_count + AckedInc(trailers')
    /\ tested_count' = tested_count + TestedInc(trailers')
    /\ reported_count' = reported_count + ReportedInc(trailers')
    /\ commits_touched' = commits_touched + TouchedInc(message', trailers', is_match')
    /\ commits_ignored' = commits_ignored + IgnoredInc(message', trailers', is_match')
    /\ idx' = idx + 1
    /\ pc' \in DebugAssertEq(
                  AssertEq(total_scanned, commits_authored, commits_touched,
                           commits_ignored),
                  AssertEq(total_scanned', commits_authored', commits_touched',
                           commits_ignored'))
    /\ UNCHANGED <<args, history, error, since_date, summary,
                   chart_files>>

\* println!("\nSummary:") ...
PrintSummary ==
    /\ pc = "summary"
    /\ summary' = Some(counters)
    /\ pc' = "chart"
    /\ UNCHANGED <<args, history, error, since_date, idx, commit_time,
                   email, message, is_match, trailers, counters, chart_files>>

\* no commit was scanned, or the path has no file name: nothing is drawn
ChartSkipped ==
    /\ pc = "chart"
    /\ ~(ChartWanted /\ IsSome(file_name(args.path)))
    /\ pc' = "done"
    /\ UNCHANGED <<args, history, error, since_date, idx, commit_time,
                   email, message, is_match, trailers, counters, summary, chart_files>>

\* generate_pie_chart saves <title>.png
ChartSaved ==
    /\ pc = "chart"
    /\ ChartWanted
    /\ IsSome(file_name(args.path))
    /\ chart_files' = Append(chart_files, <<Unwrap(file_name(args.path)), ".png">>)
    /\ pc' = "done"
    /\ UNCHANGED <<args, history, error, since_date, idx, commit_time,
                   email, message, is_match, trailers, counters, summary>>

\* generate_pie_chart: the renderer fails and unwrap panics
ChartPanic ==
    /\ pc = "chart"
    /\ ChartWanted
    /\ IsSome(file_name(args.path))
    /\ pc' = "panicked"
    /\ UNCHANGED <<args, history, error, since_date, idx, commit_time,
                   email, message, is_match, trailers, counters, summary, chart_files>>

Next ==
    \/ ParseDate
    \/ OpenRepo
    \/ OpenRepoError
    \/ PushHeadError
    \/ WalkEnd
    \/ WalkError
    \/ WalkBreak
    \/ WalkCommit
    \/ PrintSummary
    \/ ChartSkipped
    \/ ChartSaved
    \/ ChartPanic

Spec == Init /\ [][Next]_vars

\* the runs whose --email is not the empty string
InitNamedTarget == Init /\ args.email # <<>>

SpecNamedTarget == InitNamedTarget /\ [][Next]_vars

-----------------------------------------------------------------------------
(* analyze_trailers on its own: one call per message *)

InitTrailers ==
    /\ args \in [path : {<<".">>}, email : Emails, since : {None}, partial : BOOLEAN]
    /\ history = <<>>
    /\ pc = "classify"
    /\ error = ""
    /\ since_date = None
    /\ idx = 1
    /\ commit_time = None
    /\ email = None
    /\ message \in {Some(msg) : msg \in TrailerMessages}
    /\ is_match = FALSE
    /\ trailers = None
    /\ ZeroCounters
    /\ summary = None
    /\ chart_files = <<>>

ClassifyMessage ==
    /\ pc = "classify"
    /\ trailers' = Trailers(message, search_email)
    /\ pc' = "classified"
    /\ UNCHANGED <<args, history, error, since_date, idx, commit_time,
                   email, message, is_match, counters, summary, chart_files>>

NextTrailers == ClassifyMessage

SpecTrailers == InitTrailers /\ [][NextTrailers]_vars

-----------------------------------------------------------------------------
(* Properties *)

\* a step of the loop body over a commit that is counted
Counted == total_scanned' = total_scanned + 1

\* the step's increase of each counter
d_authored == commits_authored' - commits_authored

d_touched == commits_touched' - commits_touched

d_ignored == commits_ignored' - commits_ignored

d_kind ==
    [signed_off |-> signed_off_count' - signed_off_count,
     reviewed |-> reviewed_count' - reviewed_count,
     acked |-> acked_count' - acked_count,
     tested |-> tested_count' - tested_count,
     reported |-> reported_count' - reported_count]

\* whether a kind is latched for a message's Option<TrailerState>
Latched(t, k) == IsSome(t) /\ Unwrap(t)[k]

Bit(b) == IF b THEN 1 ELSE 0

WalkOver == pc \in {"summary", "chart", "done"}

\* C1: after every commit the loop has processed,
\* total_scanned == commits_authored + commits_touched + commits_ignored.
C1_Balance ==
    total_scanned = commits_authored + commits_touched + commits_ignored

\* C2: every processed commit increments exactly one of authored, touched and
\* ignored: authored if the author matches, otherwise touched if a kind is
\* latched, otherwise ignored (also when the message is absent).
C2_OneBucket ==
    [][Counted =>
         /\ d_authored = Bit(is_match')
         /\ d_touched = Bit(~is_match' /\ IsSome(trailers'))
         /\ d_ignored = Bit(~is_match' /\ ~IsSome(trailers'))]_vars

\* the number of leading commits of the history whose timestamp is not earlier
\* than the cutoff; the whole history when there is no cutoff
LeadingRun ==
    LET early == {i \in 1..Len(history) :
                    IsSome(since_date) /\ history[i] < Unwrap(since_date)}
    IN  IF early = {} THEN Len(history)
        ELSE (CHOOSE i \in early : \A j \in early : i <= j) - 1

\* C3: the walk stops at the first commit whose timestamp is strictly earlier
\* than the cutoff, so the final total_scanned is the length of the longest
\* leading run of commits with timestamp >= cutoff (the whole history without
\* a cutoff).
C3_Cutoff == WalkOver => total_scanned = LeadingRun

\* C4: a commit with an author e-mail is counted as authored iff the lower-cased
\* e-mail equals (Exact) or contains (Substring) the lower-cased target.
C4_CaseInsensitive ==
    [][(Counted /\ IsSome(email')) =>
         (d_authored = 1 <=>
            IF args.partial
            THEN contains(to_lowercase(Unwrap(email')), to_lowercase(args.email))
            ELSE to_lowercase(Unwrap(email')) = to_lowercase(args.email))]_vars

\* C5, as claimed: on every processed commit each kind's counter grows by 1 if
\* the kind is latched for the message and by 0 otherwise, whoever the author is.
C5_EveryKindCounted ==
    [][Counted => \A k \in Kinds : d_kind[k] = Bit(Latched(trailers', k))]_vars

\* C5, amended: on every processed commit the reviewed, acked, tested and
\* reported counters grow by 1 if the kind is latched for the message and by 0
\* otherwise, whoever the author is and however many lines of the kind there
\* are; the signed-off counter grows by 1 if signed-off is latched and the
\* author does not match the target, and by 0 otherwise.
C5_KindCounted ==
    [][Counted =>
         /\ \A k \in Kinds \ {"signed_off"} : d_kind[k] = Bit(Latched(trailers', k))
         /\ d_kind.signed_off = Bit(Latched(trailers', "signed_off") /\ ~is_match')]_vars

\* C5 witness: a commit with two Reviewed-by lines was counted once, then a
\* commit signed off by its own matching author left the signed-off counter at 0
C5_Witness ==
    /\ pc = "walk"
    /\ total_scanned = 2
    /\ reviewed_count = 1
    /\ is_match
    /\ Latched(trailers, "signed_off")
    /\ signed_off_count = 0

\* C6: a run that completes renders the chart exactly once when
\* total_scanned > 0 and never when total_scanned == 0, whatever --path is.
C6_ChartOnce ==
    pc = "done" =>
        /\ total_scanned > 0 => Len(chart_files) = 1
        /\ total_scanned = 0 => chart_files = <<>>

ZeroSummary == Some(<<0, 0, 0, 0, 0, 0, 0, 0, 0>>)

OtherError ==
    error \in {"Invalid date format. Please use YYYY-MM-DD",
               "Failed to open git repository"}

\* C7, as claimed: on a repository without commits the run is no fatal error;
\* it ends with the all-zero summary and without a chart.
C7_EmptyHistoryRuns ==
    (history = <<>> /\ ~OtherError) =>
        /\ pc # "failed"
        /\ pc = "done" => (summary = ZeroSummary /\ chart_files = <<>>)

\* C7, amended: a run that completes having scanned zero commits (the first
\* commit of the walk is cut off) has printed the summary with every counter 0
\* and renders no chart; on a repository without commits HEAD does not resolve
\* and the run ends in a fatal error before any summary or chart.
C7_ZeroScan ==
    /\ (pc = "done" /\ total_scanned = 0) =>
           (summary = ZeroSummary /\ chart_files = <<>>)
    /\ history = <<>> =>
           /\ pc \in {"parse_date", "open_repo", "failed"}
           /\ summary = None
           /\ chart_files = <<>>

\* C7 witness: a completed run over a repository with commits, a path that has
\* a file name, and nothing scanned
C7_Witness ==
    /\ pc = "done"
    /\ history # <<>>
    /\ total_scanned = 0
    /\ IsSome(file_name(args.path))
    /\ summary = ZeroSummary

\* C8: a commit without an author e-mail never counts as authored, whatever the
\* target and the mode, and is still counted in total_scanned.
C8_AbsentEmail ==
    [][(idx' = idx + 1 /\ email' = None) =>
         (d_authored = 0 /\ Counted)]_vars

PrefixOf ==
    [signed_off |-> SIGNED_OFF_BY, reviewed |-> REVIEWED_BY, acked |-> ACKED_BY,
     tested |-> TESTED_BY, reported |-> REPORTED_BY]

\* some line of msg, trimmed and lower-cased, starts with k's prefix and
\* contains target
SomeLine(msg, target, k) ==
    \E i \in 1..Len(lines(msg)) :
        LET lower == to_lowercase(trim(lines(msg)[i]))
        IN  starts_with(lower, PrefixOf[k]) /\ contains(lower, target)

\* C9: analyze_trailers latches kind K iff some line of the message, trimmed and
\* lower-cased, starts with K's prefix and contains the lower-cased target; a
\* line latches at most one kind; the mode plays no part; a message that
\* latches nothing yields None.
C9_Trailers ==
    pc = "classified" =>
        LET msg == Unwrap(message)
            target == to_lowercase(args.email)
        IN  /\ \A k \in Kinds : Latched(trailers, k) = SomeLine(msg, target, k)
            /\ trailers = None <=> \A k \in Kinds : ~SomeLine(msg, target, k)
            /\ \A i \in 1..Len(lines(msg)) :
                 Cardinality({k \in Kinds :
                     ScanLine(TrailerStateDefault, lines(msg)[i], target)[k]}) <= 1

\* C9 witness: a message of an indented lower-case reviewed line and a line
\* that holds two prefixes has latched reviewed alone
C9_Witness ==
    /\ pc = "classified"
    /\ args.email = J_UPPER
    /\ message = Some(SP \o SP \o REVIEWED_BY \o SP \o J_LOWER \o SP \o NL
                        \o ReviewedBy \o SP \o SignedOffBy \o SP \o J_LOWER)
    /\ trailers = Some([TrailerStateDefault EXCEPT !.reviewed = TRUE])

\* C10: after every processed commit, signed_off_count <= commits_touched <=
\* signed_off_count + reviewed_count + acked_count + tested_count + reported_count.
C10_TouchedBounds ==
    /\ signed_off_count <= commits_touched
    /\ commits_touched <=
         signed_off_count + reviewed_count + acked_count + tested_count + reported_count

\* C10 witness: two touched commits, one of them signed off, the other carrying
\* three kinds
C10_Witness ==
    /\ total_scanned = 2
    /\ commits_touched = 2
    /\ signed_off_count = 1
    /\ acked_count = 1
    /\ tested_count = 1
    /\ reported_count = 1

====
